---- MODULE Spec2Model ----
(***************************************************************************)
(* xenia-api: the authorization pipeline (requireSession, requireOrg,      *)
(* requireRole), the tenant routes behind it (properties, reservations),   *)
(* and the endpoints that create and destroy sessions (accept-invite,      *)
(* login, logout), over the tables of the store.                           *)
(*                                                                         *)
(* The clock is counted in ticks of one week, so WEEK is 1 tick.           *)
(* Every "await" of a handler that reads or writes the store is one step;  *)
(* requests interleave at those steps only (one event loop, one store).    *)
(***************************************************************************)
EXTENDS Integers, Sequences, FiniteSets, TLC

\* ------------------------------------------------------------------ bounds
MaxTime == 2
MaxSessions == 3
MaxLogins == 1
MaxProps == 2
MaxRes == 1
MaxAccepts == 2
MaxRoles == 3

\* ------------------------------------------------------- program constants
WEEK == 1

Orgs == {"A", "B"}
Roles == {"owner", "admin", "member"}
Emails == {"e1", "e2", "e3"}
Passwords == {"p1", "p2"}
InviteTokens == {"t1", "t2"}
\* a well-formed token that names no invitation, and bodies the schemas reject
UnknownInvite == "t0"
ShortToken == "tshort"
ShortPassword == "pshort"
BadEmail == "notmail"

\* z.string().min(16) for the token, z.string().min(8) for the password
MinTokenLen == 16
MinPasswordLen == 8

\* the length of each string a body carries (seeded tokens are 48 hex digits)
BodyLen ==
  [t0 |-> 48, t1 |-> 48, t2 |-> 48, tshort |-> 6, p1 |-> 9, p2 |-> 9, pshort |-> 6]

\* z.string().email()
IsEmail == [e1 |-> TRUE, e2 |-> TRUE, e3 |-> TRUE, notmail |-> FALSE]

AcceptInviteSchema(token, password) ==
  BodyLen[token] >= MinTokenLen /\ BodyLen[password] >= MinPasswordLen

LoginSchema(email, password) == IsEmail[email] /\ BodyLen[password] >= MinPasswordLen

\* table organizations
organizations == {[id |-> "A", name |-> "Org A"], [id |-> "B", name |-> "Org B"]}

\* Session ids are 1..MaxSessions. NoCookie is a request without the session
\* cookie; UnknownToken is a cookie value ("abc") the store never issued.
NoCookie == 0
SessionIds == 1..MaxSessions
UnknownToken == MaxSessions + 1
Cookies == SessionIds \cup {NoCookie, UnknownToken}
NoOrg == "noorg"
\* invitations.usedAt of an unused invitation
NULL == -1

VARIABLES
  now,          \* Date.now(), in ticks
  users,        \* table users: set of rows, unique id, unique email
  memberships,  \* table memberships: sequence of rows in insertion order
  sessions,     \* table sessions: set of rows, unique id
  invitations,  \* table invitations: set of rows, unique token
  properties,   \* table properties: set of rows, unique id
  reservations, \* table reservations: set of rows, unique id
  nextSid,      \* the id the store gives the next session row
  req,          \* the tenant-route request in flight
  acc,          \* the accept-invite requests in flight
  resp          \* the response of the last login or logout

vars == <<now, users, memberships, sessions, invitations, properties,
          reservations, nextSid, req, acc, resp>>

store == <<users, memberships, sessions, invitations, properties, reservations,
           nextSid>>

\* ------------------------------------------------------------- responses
NoReply == [code |-> 0, error |-> ""]
Reply(c, e) == [code |-> c, error |-> e]
Ok == [code |-> 200, error |-> ""]

Range(s) == {s[i] : i \in DOMAIN s}

\* ------------------------------------------------------ password hasher
\* argon2.hash(plain): an encoded argon2id hash of the plaintext (the salt
\* does not enter any comparison the program makes and is left out).
hashPasswordUnhashed(plain) == [alg |-> "none", plain |-> plain]

hashPassword(plain) == [alg |-> "argon2id", plain |-> plain]

\* argon2.verify throws on a hash it cannot decode; the catch answers false.
\* a stored password_hash that argon2.verify cannot decode
MalformedHash == [alg |-> "garbage", plain |-> "p1"]

verifyPasswordNoCatch(hash, plain) == hash.plain = plain

verifyPassword(hash, plain) ==
  IF hash.alg = "argon2id" THEN hash.plain = plain ELSE FALSE

\* ------------------------------------------------------------- the store
FreshId(rows) == CHOOSE n \in 1..(Cardinality(rows) + 1) : \A r \in rows : r.id # n

\* memberships has primary key (userId, orgId): an insert of a second row
\* for the pair is rejected by the store (the statement throws).
MembershipKeyFree(ms, userId, orgId) ==
  \A i \in DOMAIN ms : ~(ms[i].userId = userId /\ ms[i].orgId = orgId)

\* users.email is unique: a second row for the email is rejected.
UserEmailFree(us, email) == \A u \in us : u.email # email

\* ------------------------------------------------------------------ routes
ReadRoutes ==
  {"propList", "propDetail", "resList", "resDetail", "calendar", "summary"}
AdminRoutes == {"propCreate", "propUpdate", "propDelete", "resCreate", "resUpdate"}
OwnerRoutes == {"resDelete"}
Routes == ReadRoutes \cup AdminRoutes \cup OwnerRoutes

\* the preHandler array of each route
Gates(route) ==
  IF route \in ReadRoutes THEN <<"session", "org">>
  ELSE <<"session", "org", "role">>

MinRoleAdminEverywhere(route) == "admin"

\* the argument of requireRole(...) on the route
MinRole(route) == IF route \in OwnerRoutes THEN "owner" ELSE "admin"

NoAuth == [userId |-> 0, orgId |-> NoOrg, roles |-> <<>>, set |-> FALSE]

IdleReq ==
  [pc |-> "idle", route |-> "propList", cookie |-> NoCookie, orgId |-> "A",
   auth |-> NoAuth, reply |-> NoReply, ran |-> <<>>, failed |-> "none",
   handled |-> FALSE, data |-> {}]

AfterGateNoStop(route, ran, reply) ==
  IF Len(ran) < Len(Gates(route)) THEN Gates(route)[Len(ran) + 1]
  ELSE IF reply # NoReply THEN "done" ELSE "handler"

\* Fastify runs the preHandler hooks in array order and stops the chain as
\* soon as a hook has sent the reply; the handler runs after the last hook.
AfterGate(route, ran, reply) ==
  IF reply # NoReply THEN "done"
  ELSE IF Len(ran) < Len(Gates(route)) THEN Gates(route)[Len(ran) + 1]
  ELSE "handler"

\* --------------------------------------------------------- requireSession
SessionRows(sid) == {s \in sessions : s.id = sid}

SessionExpired(s, t) == s.expiresAt < t

requireSessionReply(cookie, t) ==
  IF cookie = NoCookie THEN Reply(401, "No session")
  ELSE IF SessionRows(cookie) = {}
          \/ \E s \in SessionRows(cookie) : SessionExpired(s, t)
       THEN Reply(401, "Session expired")
       ELSE NoReply

requireSessionAuth(cookie, t) ==
  IF requireSessionReply(cookie, t) # NoReply THEN NoAuth
  ELSE LET s == CHOOSE s \in SessionRows(cookie) : TRUE
       IN [userId |-> s.userId, orgId |-> s.orgId, roles |-> <<>>, set |-> TRUE]

\* A request arrives (route, cookie and path parameter chosen by the
\* client) and the first preHandler, requireSession, runs.
RequireSession(route, cookie, orgId) ==
  /\ req.pc \in {"idle", "done"}
  /\ route = "propCreate" => Cardinality(properties) < MaxProps
  /\ route = "resCreate" => Cardinality(reservations) < MaxRes
  /\ LET reply == requireSessionReply(cookie, now)
         ran == <<"session">>
     IN req' = [pc |-> AfterGate(route, ran, reply), route |-> route,
                cookie |-> cookie, orgId |-> orgId,
                auth |-> requireSessionAuth(cookie, now), reply |-> reply,
                ran |-> ran,
                failed |-> IF reply # NoReply THEN "session" ELSE "none",
                handled |-> FALSE, data |-> {}]
  /\ UNCHANGED <<now, store, acc, resp>>

\* ------------------------------------------------------------- requireOrg
RolesOf(ms, userId, orgId) ==
  LET mine(r) == r.userId = userId
      here(r) == r.orgId = orgId
      rows == SelectSeq(ms, mine)
      kept == SelectSeq(rows, here)
  IN [i \in DOMAIN kept |-> kept[i].role]

requireOrgReplyAnyOrg(auth, orgId, ms) ==
  IF ~auth.set \/ orgId = NoOrg THEN Reply(400, "Missing orgId")
  ELSE IF Len(RolesOf(ms, auth.userId, orgId)) = 0 THEN Reply(403, "No membership")
  ELSE NoReply

requireOrgReplyNoRecheck(auth, orgId, ms) ==
  IF ~auth.set \/ orgId = NoOrg THEN Reply(400, "Missing orgId")
  ELSE IF auth.orgId # orgId THEN Reply(403, "Wrong organization context")
  ELSE NoReply

requireOrgReply(auth, orgId, ms) ==
  IF ~auth.set \/ orgId = NoOrg THEN Reply(400, "Missing orgId")
  ELSE IF auth.orgId # orgId THEN Reply(403, "Wrong organization context")
  ELSE IF Len(RolesOf(ms, auth.userId, orgId)) = 0 THEN Reply(403, "No membership")
  ELSE NoReply

RequireOrg ==
  /\ req.pc = "org"
  /\ LET reply == requireOrgReply(req.auth, req.orgId, memberships)
         ran == Append(req.ran, "org")
     IN req' = [req EXCEPT
                  !.pc = AfterGate(req.route, ran, reply),
                  !.reply = reply,
                  !.ran = ran,
                  !.failed = IF reply # NoReply THEN "org" ELSE "none",
                  !.auth = IF reply = NoReply
                           THEN [req.auth EXCEPT
                                   !.roles = RolesOf(memberships, req.auth.userId, req.orgId)]
                           ELSE req.auth]
  /\ UNCHANGED <<now, store, acc, resp>>

\* ------------------------------------------------------------ requireRole
order == [member |-> 0, admin |-> 1, owner |-> 2]

Max(a, b) == IF a >= b THEN a ELSE b

\* roles.reduce((acc, r) => Math.max(acc, order[r]), 0)
RECURSIVE reduceMax(_, _)
reduceMax(roles, a) ==
  IF roles = <<>> THEN a
  ELSE reduceMax(Tail(roles), Max(a, order[Head(roles)]))

requireRolePassesStrict(roles, min) == ~(reduceMax(roles, 0) <= order[min])

requireRolePasses(roles, min) == ~(reduceMax(roles, 0) < order[min])

requireRoleReply(auth, min) ==
  IF requireRolePasses(IF auth.set THEN auth.roles ELSE <<>>, min)
  THEN NoReply
  ELSE Reply(403, "Insufficient role")

RequireRole ==
  /\ req.pc = "role"
  /\ LET reply == requireRoleReply(req.auth, MinRole(req.route))
         ran == Append(req.ran, "role")
     IN req' = [req EXCEPT
                  !.pc = AfterGate(req.route, ran, reply),
                  !.reply = reply,
                  !.ran = ran,
                  !.failed = IF reply # NoReply THEN "role" ELSE "none"]
  /\ UNCHANGED <<now, store, acc, resp>>

\* ------------------------------------------------------- property routes
PropIds == 1..MaxProps
ResIds == 1..MaxRes

Item(table, row) == [table |-> table, id |-> row.id, orgId |-> row.orgId]

Finish(reply, data) ==
  req' = [req EXCEPT !.pc = "done", !.reply = reply, !.data = data,
                     !.handled = TRUE]

NotFound == Reply(404, "Not found")
InternalError == Reply(500, "Internal Server Error")

PropsWhere(orgId, id) == {p \in properties : p.orgId = orgId /\ p.id = id}

\* GET /orgs/:orgId/properties
PropList ==
  /\ req.pc = "handler" /\ req.route = "propList"
  /\ Finish(Ok, {Item("properties", p) : p \in {q \in properties : q.orgId = req.orgId}})
  /\ UNCHANGED <<now, store, acc, resp>>

\* POST /orgs/:orgId/properties
PropCreate ==
  /\ req.pc = "handler" /\ req.route = "propCreate"
  /\ \E isActive \in BOOLEAN :
       LET row == [id |-> FreshId(properties), orgId |-> req.orgId,
                   isActive |-> isActive]
       IN /\ properties' = properties \cup {row}
          /\ Finish(Ok, {Item("properties", row)})
  /\ UNCHANGED <<now, users, memberships, sessions, invitations, reservations,
                 nextSid, acc, resp>>

\* GET /orgs/:orgId/properties/:propertyId
PropDetail ==
  /\ req.pc = "handler" /\ req.route = "propDetail"
  /\ \E pid \in PropIds :
       IF PropsWhere(req.orgId, pid) = {} THEN Finish(NotFound, {})
       ELSE Finish(Ok, {Item("properties", p) : p \in PropsWhere(req.orgId, pid)})
  /\ UNCHANGED <<now, store, acc, resp>>

\* db.update(properties).set(...).where(orgId = :orgId and id = :propertyId)
UpdateProps(orgId, id, isActive) ==
  {IF p \in PropsWhere(orgId, id) THEN [p EXCEPT !.isActive = isActive] ELSE p :
     p \in properties}

\* PUT /orgs/:orgId/properties/:propertyId
PropUpdate ==
  /\ req.pc = "handler" /\ req.route = "propUpdate"
  /\ \E pid \in PropIds, isActive \in BOOLEAN :
       /\ properties' = UpdateProps(req.orgId, pid, isActive)
       /\ IF PropsWhere(req.orgId, pid) = {} THEN Finish(NotFound, {})
          ELSE Finish(Ok, {Item("properties", p) : p \in PropsWhere(req.orgId, pid)})
  /\ UNCHANGED <<now, users, memberships, sessions, invitations, reservations,
                 nextSid, acc, resp>>

\* DELETE /orgs/:orgId/properties/:propertyId (soft delete)
PropDelete ==
  /\ req.pc = "handler" /\ req.route = "propDelete"
  /\ \E pid \in PropIds :
       /\ properties' = UpdateProps(req.orgId, pid, FALSE)
       /\ IF PropsWhere(req.orgId, pid) = {} THEN Finish(NotFound, {})
          ELSE Finish(Ok, {})
  /\ UNCHANGED <<now, users, memberships, sessions, invitations, reservations,
                 nextSid, acc, resp>>

\* ---------------------------------------------------- reservation routes
ResWhere(orgId, id) == {r \in reservations : r.orgId = orgId /\ r.id = id}

\* GET /orgs/:orgId/reservations (optional filter propertyId; 0 is no filter)
ResList ==
  /\ req.pc = "handler" /\ req.route = "resList"
  /\ \E pid \in PropIds \cup {0} :
       Finish(Ok, {Item("reservations", r) :
                     r \in {x \in reservations :
                              x.orgId = req.orgId /\ (pid # 0 => x.propertyId = pid)}})
  /\ UNCHANGED <<now, store, acc, resp>>

\* POST /orgs/:orgId/reservations; reservations.propertyId references
\* properties.id, so the insert throws when no such property exists.
ResCreate ==
  /\ req.pc = "handler" /\ req.route = "resCreate"
  /\ \E pid \in PropIds :
       IF \A p \in properties : p.id # pid
       THEN /\ Finish(InternalError, {})
            /\ UNCHANGED reservations
       ELSE LET row == [id |-> FreshId(reservations), orgId |-> req.orgId,
                        propertyId |-> pid, createdBy |-> req.auth.userId]
            IN /\ reservations' = reservations \cup {row}
               /\ Finish(Ok, {Item("reservations", row)})
  /\ UNCHANGED <<now, users, memberships, sessions, invitations, properties,
                 nextSid, acc, resp>>

\* GET /orgs/:orgId/reservations/:id
ResDetail ==
  /\ req.pc = "handler" /\ req.route = "resDetail"
  /\ \E rid \in ResIds :
       IF ResWhere(req.orgId, rid) = {} THEN Finish(NotFound, {})
       ELSE Finish(Ok, {Item("reservations", r) : r \in ResWhere(req.orgId, rid)})
  /\ UNCHANGED <<now, store, acc, resp>>

\* PUT /orgs/:orgId/reservations/:id (the body may name another propertyId)
ResUpdate ==
  /\ req.pc = "handler" /\ req.route = "resUpdate"
  /\ \E rid \in ResIds, pid \in PropIds :
       IF ResWhere(req.orgId, rid) = {}
       THEN /\ Finish(NotFound, {})
            /\ UNCHANGED reservations
       ELSE IF \A p \in properties : p.id # pid
       THEN /\ Finish(InternalError, {})
            /\ UNCHANGED reservations
       ELSE /\ reservations' =
                 {IF r \in ResWhere(req.orgId, rid)
                  THEN [r EXCEPT !.propertyId = pid] ELSE r : r \in reservations}
            /\ Finish(Ok, {Item("reservations", r) : r \in ResWhere(req.orgId, rid)})
  /\ UNCHANGED <<now, users, memberships, sessions, invitations, properties,
                 nextSid, acc, resp>>

\* DELETE /orgs/:orgId/reservations/:id
ResDelete ==
  /\ req.pc = "handler" /\ req.route = "resDelete"
  /\ \E rid \in ResIds :
       /\ reservations' = reservations \ ResWhere(req.orgId, rid)
       /\ IF ResWhere(req.orgId, rid) = {} THEN Finish(NotFound, {})
          ELSE Finish(Ok, {})
  /\ UNCHANGED <<now, users, memberships, sessions, invitations, properties,
                 nextSid, acc, resp>>

\* GET /orgs/:orgId/properties/:propertyId/calendar
Calendar ==
  /\ req.pc = "handler" /\ req.route = "calendar"
  /\ \E pid \in PropIds :
       Finish(Ok, {Item("reservations", r) :
                     r \in {x \in reservations :
                              x.orgId = req.orgId /\ x.propertyId = pid}})
  /\ UNCHANGED <<now, store, acc, resp>>

\* GET /orgs/:orgId/owners/:userId/summary: reservations of the organization
\* inner-joined with properties on properties.id = reservations.propertyId;
\* each row carries the property's name and the reservation's columns.
Summary ==
  /\ req.pc = "handler" /\ req.route = "summary"
  /\ LET joined == {<<r, p>> \in reservations \X properties :
                      r.orgId = req.orgId /\ p.id = r.propertyId}
     IN Finish(Ok, {Item("reservations", j[1]) : j \in joined}
                     \cup {Item("properties", j[2]) : j \in joined})
  /\ UNCHANGED <<now, store, acc, resp>>

\* ----------------------------------------------------------- the sessions
\* createSession: insert a row that expires a week from now
createSession(userId, orgId) ==
  [id |-> nextSid, userId |-> userId, orgId |-> orgId, expiresAt |-> now + WEEK]

destroySessionKeep(sessionId) == sessions

destroySessionOfUser(sessionId) ==
  {s \in sessions : \A t \in sessions : t.id = sessionId => t.userId # s.userId}

\* destroySession: delete from sessions where id = sessionId
destroySession(sessionId) == {s \in sessions : s.id # sessionId}

\* accept-invite requests that have passed validation and will create a session
InFlight == {i \in DOMAIN acc : acc[i].pc \notin {"idle", "done"}}

CanIssue == (nextSid - 1) + Cardinality(InFlight) < MaxSessions

NoResp ==
  [code |-> 0, error |-> "", sid |-> NoCookie, orgId |-> NoOrg, name |-> "",
   role |-> ""]

\* ------------------------------------------------------------ POST /login
UserByEmail(email) == {u \in users : u.email = email}

MembershipsOf(userId) ==
  LET mine(r) == r.userId = userId IN SelectSeq(memberships, mine)

\* organizations.name of the row the membership joins
OrgName(orgId) == (CHOOSE o \in organizations : o.id = orgId).name

SelectedOrgFirst(orgRows, orgId) == <<orgRows[1]>>

SelectedOrg(orgRows, orgId) ==
  IF orgId # NoOrg
  THEN LET hit(r) == r.orgId = orgId IN SelectSeq(orgRows, hit)
  ELSE <<orgRows[1]>>

\* the model lets login issue the first MaxLogins session ids
CanLogin == CanIssue /\ nextSid <= MaxLogins

Login(email, password, orgId) ==
  /\ CanLogin
  /\ LET found == UserByEmail(email)
         thisUser == CHOOSE u \in found : TRUE
     IN IF ~LoginSchema(email, password)
        THEN /\ resp' = [NoResp EXCEPT !.code = InternalError.code,
                                       !.error = InternalError.error]
             /\ UNCHANGED <<sessions, nextSid>>
        ELSE IF found = {} \/ ~thisUser.isActive
           \/ ~verifyPassword(thisUser.passwordHash, password)
        THEN /\ resp' = [NoResp EXCEPT !.code = 401, !.error = "Invalid credentials"]
             /\ UNCHANGED <<sessions, nextSid>>
        ELSE LET orgRows == MembershipsOf(thisUser.id)
             IN IF Len(orgRows) = 0
                THEN /\ resp' = [NoResp EXCEPT !.code = 403,
                                               !.error = "No organizations assigned"]
                     /\ UNCHANGED <<sessions, nextSid>>
                ELSE IF Len(SelectedOrg(orgRows, orgId)) = 0
                THEN /\ resp' = [NoResp EXCEPT !.code = 403,
                                               !.error = "Organization not allowed"]
                     /\ UNCHANGED <<sessions, nextSid>>
                ELSE LET selectedOrg == SelectedOrg(orgRows, orgId)[1]
                         sess == createSession(thisUser.id, selectedOrg.orgId)
                     IN /\ sessions' = sessions \cup {sess}
                        /\ nextSid' = nextSid + 1
                        /\ resp' = [code |-> 200, error |-> "", sid |-> sess.id,
                                    orgId |-> selectedOrg.orgId,
                                    name |-> OrgName(selectedOrg.orgId),
                                    role |-> selectedOrg.role]
  /\ UNCHANGED <<now, users, memberships, invitations, properties, reservations,
                 req, acc>>

\* ----------------------------------------------------------- POST /logout
Logout(cookie) ==
  /\ sessions' = IF cookie # NoCookie THEN destroySession(cookie) ELSE sessions
  /\ resp' = [NoResp EXCEPT !.code = 200]
  /\ UNCHANGED <<now, users, memberships, invitations, properties, reservations,
                 nextSid, req, acc>>

\* ------------------------------------------------------ the environment
\* Date.now() advances.
Tick ==
  /\ now < MaxTime
  /\ now' = now + 1
  /\ UNCHANGED <<store, req, acc, resp>>

\* A membership row is removed from the store (administrative removal; the
\* API itself has no endpoint for it).
RevokeMembership(i) ==
  /\ i \in DOMAIN memberships
  /\ memberships' = [j \in 1..(Len(memberships) - 1) |->
                       IF j < i THEN memberships[j] ELSE memberships[j + 1]]
  /\ UNCHANGED <<now, users, sessions, invitations, properties, reservations,
                 nextSid, req, acc, resp>>

\* ------------------------------------------------ POST /auth/accept-invite
NoInv ==
  [id |-> 0, orgId |-> NoOrg, email |-> "", role |-> "", token |-> "",
   expiresAt |-> 0, usedAt |-> NULL]

\* wrote: the request has executed an insert or an update of users or
\* memberships (every update of a user stores a freshly salted hash)
IdleAcc ==
  [pc |-> "idle", token |-> "", password |-> "", inv |-> NoInv, userId |-> 0,
   count |-> 0, wrote |-> FALSE, reply |-> NoReply, sid |-> NoCookie]

InviteRows(token) == {v \in invitations : v.token = token}

InviteInvalidNoUsedCheck(rows, t) ==
  rows = {} \/ \E v \in rows : v.expiresAt < t

\* !inv || inv.usedAt || new Date(inv.expiresAt).getTime() < Date.now()
InviteInvalid(rows, t) ==
  rows = {} \/ \E v \in rows : v.usedAt # NULL \/ v.expiresAt < t

AccDone(i, reply, sid) ==
  acc' = [acc EXCEPT ![i].pc = "done", ![i].reply = reply, ![i].sid = sid]

\* The request arrives and the invitation is read and validated.
AcceptReadInvite(i, token, password) ==
  /\ acc[i].pc \in {"idle", "done"}
  /\ CanIssue
  /\ IF ~AcceptInviteSchema(token, password)
     THEN acc' = [acc EXCEPT ![i] =
                    [IdleAcc EXCEPT !.pc = "done", !.token = token,
                                    !.password = password,
                                    !.reply = InternalError]]
     ELSE IF InviteInvalid(InviteRows(token), now)
     THEN acc' = [acc EXCEPT ![i] =
                    [IdleAcc EXCEPT !.pc = "done", !.token = token,
                                    !.password = password,
                                    !.reply = Reply(400, "Invalid or expired invite")]]
     ELSE acc' = [acc EXCEPT ![i] =
                    [IdleAcc EXCEPT !.pc = "readUser", !.token = token,
                                    !.password = password,
                                    !.inv = CHOOSE v \in InviteRows(token) : TRUE]]
  /\ UNCHANGED <<now, store, req, resp>>

\* select from users where email = inv.email
AcceptReadUser(i) ==
  /\ acc[i].pc = "readUser"
  /\ LET userRows == UserByEmail(acc[i].inv.email)
     IN acc' = [acc EXCEPT ![i].pc = "writeUser",
                           ![i].userId = IF userRows = {} THEN 0
                                         ELSE (CHOOSE u \in userRows : TRUE).id]
  /\ UNCHANGED <<now, store, req, resp>>

\* insert the user, or update the password hash of the user that was read
AcceptWriteUser(i) ==
  /\ acc[i].pc = "writeUser"
  /\ LET pwdHash == hashPassword(acc[i].password)
         email == acc[i].inv.email
     IN IF acc[i].userId = 0
        THEN IF UserEmailFree(users, email)
             THEN LET id == FreshId(users)
                  IN /\ users' = users \cup {[id |-> id, email |-> email,
                                               passwordHash |-> pwdHash,
                                               isActive |-> TRUE]}
                     /\ acc' = [acc EXCEPT ![i].pc = "count", ![i].userId = id,
                                           ![i].wrote = TRUE]
             ELSE /\ AccDone(i, InternalError, NoCookie)
                  /\ UNCHANGED users
        ELSE /\ users' = {IF u.id = acc[i].userId
                          THEN [u EXCEPT !.passwordHash = pwdHash, !.isActive = TRUE]
                          ELSE u : u \in users}
             /\ acc' = [acc EXCEPT ![i].pc = "count", ![i].wrote = TRUE]
  /\ UNCHANGED <<now, memberships, sessions, invitations, properties, reservations,
                 nextSid, req, resp>>

countRowsNone(ms, userId, orgId) == 0

\* select count(*) from memberships where userId = ... and orgId = inv.orgId
countRows(ms, userId, orgId) == Len(RolesOf(ms, userId, orgId))

AcceptCount(i) ==
  /\ acc[i].pc = "count"
  /\ LET count == countRows(memberships, acc[i].userId, acc[i].inv.orgId)
     IN acc' = [acc EXCEPT ![i].count = count,
                           ![i].pc = IF count = 0 THEN "insert" ELSE "mark"]
  /\ UNCHANGED <<now, store, req, resp>>

InsertMembershipNoKey(ms, row) == [ok |-> TRUE, rows |-> Append(ms, row)]

\* db.insert(memberships).values({userId, orgId: inv.orgId, role: inv.role})
InsertMembership(ms, row) ==
  IF MembershipKeyFree(ms, row.userId, row.orgId)
  THEN [ok |-> TRUE, rows |-> Append(ms, row)]
  ELSE [ok |-> FALSE, rows |-> ms]

AcceptInsertMembership(i) ==
  /\ acc[i].pc = "insert"
  /\ LET res == InsertMembership(memberships,
                   [userId |-> acc[i].userId, orgId |-> acc[i].inv.orgId,
                    role |-> acc[i].inv.role])
     IN /\ memberships' = res.rows
        /\ IF res.ok THEN acc' = [acc EXCEPT ![i].pc = "mark", ![i].wrote = TRUE]
           ELSE AccDone(i, InternalError, NoCookie)
  /\ UNCHANGED <<now, users, sessions, invitations, properties, reservations,
                 nextSid, req, resp>>

\* update invitations set usedAt = new Date() where id = inv.id
AcceptMarkUsed(i) ==
  /\ acc[i].pc = "mark"
  /\ invitations' = {IF v.id = acc[i].inv.id THEN [v EXCEPT !.usedAt = now] ELSE v :
                       v \in invitations}
  /\ acc' = [acc EXCEPT ![i].pc = "session"]
  /\ UNCHANGED <<now, users, memberships, sessions, properties, reservations,
                 nextSid, req, resp>>

\* createSession(userId, inv.orgId); the reply sets the cookie
AcceptCreateSession(i) ==
  /\ acc[i].pc = "session"
  /\ LET sess == createSession(acc[i].userId, acc[i].inv.orgId)
     IN /\ sessions' = sessions \cup {sess}
        /\ nextSid' = nextSid + 1
        /\ AccDone(i, Ok, sess.id)
  /\ UNCHANGED <<now, users, memberships, invitations, properties, reservations,
                 req, resp>>

\* ------------------------------------------------------------------- Init
Init ==
  /\ now = 0
  /\ users = {[id |-> 1, email |-> "e1", passwordHash |-> hashPassword("p1"),
               isActive |-> TRUE],
              [id |-> 2, email |-> "e2", passwordHash |-> hashPassword("p1"),
               isActive |-> TRUE]}
  /\ memberships = <<[userId |-> 1, orgId |-> "A", role |-> "owner"],
                     [userId |-> 1, orgId |-> "B", role |-> "member"],
                     [userId |-> 2, orgId |-> "A", role |-> "admin"]>>
  /\ sessions = {}
  /\ invitations =
       {[id |-> 1, orgId |-> "B", email |-> "e3", role |-> "admin",
         token |-> "t1", expiresAt |-> WEEK, usedAt |-> NULL],
        [id |-> 2, orgId |-> "B", email |-> "e3", role |-> "member",
         token |-> "t2", expiresAt |-> WEEK, usedAt |-> NULL]}
  /\ properties = {[id |-> 1, orgId |-> "B", isActive |-> TRUE]}
  /\ reservations = {}
  /\ nextSid = 1
  /\ req = IdleReq
  /\ acc = [i \in 1..MaxAccepts |-> IdleAcc]
  /\ resp = NoResp

\* ------------------------------------------------------------------- Next
RequestRead == \E route \in ReadRoutes, cookie \in Cookies, orgId \in Orgs :
                 RequireSession(route, cookie, orgId)

RequestWrite ==
  \E route \in AdminRoutes \cup OwnerRoutes, cookie \in Cookies, orgId \in Orgs :
    RequireSession(route, cookie, orgId)

Request == RequestRead \/ RequestWrite

ReadHandler ==
  \/ PropList \/ PropDetail \/ ResList \/ ResDetail \/ Calendar \/ Summary

WriteHandler ==
  \/ PropCreate \/ PropUpdate \/ PropDelete
  \/ ResCreate \/ ResUpdate \/ ResDelete

Handler == ReadHandler \/ WriteHandler

DoLogin == \E email \in Emails, password \in Passwords, orgId \in Orgs \cup {NoOrg} :
             Login(email, password, orgId)

DoLogout == \E cookie \in Cookies : Logout(cookie)

Revoke == \E i \in DOMAIN memberships : RevokeMembership(i)

Accept ==
  \/ \E i \in 1..MaxAccepts, token \in InviteTokens, password \in Passwords :
       AcceptReadInvite(i, token, password)
  \/ \E i \in 1..MaxAccepts :
       \/ AcceptReadUser(i) \/ AcceptWriteUser(i) \/ AcceptCount(i)
       \/ AcceptInsertMembership(i) \/ AcceptMarkUsed(i) \/ AcceptCreateSession(i)

Next ==
  \/ Tick \/ Revoke \/ DoLogin \/ DoLogout
  \/ Request \/ RequireOrg \/ RequireRole \/ Handler
  \/ Accept

Spec == Init /\ [][Next]_vars

\* The tenant routes, with the store as three logins at time 0 leave it: user
\* 1 logged in to A (owner) and to B (member), user 2 to A (admin).
InitTenant ==
  /\ now = 0
  /\ users = {[id |-> 1, email |-> "e1", passwordHash |-> hashPassword("p1"),
               isActive |-> TRUE],
              [id |-> 2, email |-> "e2", passwordHash |-> hashPassword("p1"),
               isActive |-> TRUE]}
  /\ memberships = <<[userId |-> 1, orgId |-> "A", role |-> "owner"],
                     [userId |-> 1, orgId |-> "B", role |-> "member"],
                     [userId |-> 2, orgId |-> "A", role |-> "admin"]>>
  /\ sessions = {[id |-> 1, userId |-> 1, orgId |-> "A", expiresAt |-> WEEK],
                 [id |-> 2, userId |-> 1, orgId |-> "B", expiresAt |-> WEEK],
                 [id |-> 3, userId |-> 2, orgId |-> "A", expiresAt |-> WEEK]}
  /\ invitations = {}
  /\ properties = {[id |-> 1, orgId |-> "B", isActive |-> TRUE]}
  /\ reservations = {}
  /\ nextSid = 4
  /\ req = IdleReq
  /\ acc = [i \in 1..MaxAccepts |-> IdleAcc]
  /\ resp = [NoResp EXCEPT !.code = 200, !.sid = 3, !.orgId = "A", !.role = "admin"]

NextTenant == Request \/ RequireOrg \/ RequireRole \/ Handler

SpecTenant == InitTenant /\ [][NextTenant]_vars

\* Session expiry and logout as the gates see them.
NextExpiry ==
  \/ Tick \/ DoLogin \/ DoLogout
  \/ RequestRead \/ RequireOrg \/ ReadHandler

SpecExpiry == Init /\ [][NextExpiry]_vars

\* Membership removal as the gates see it.
NextRevoke ==
  \/ Revoke \/ DoLogin
  \/ RequestRead \/ RequireOrg \/ ReadHandler

SpecRevoke == Init /\ [][NextRevoke]_vars

\* requireRole as a function of the role array and the minimum role: the
\* request stands before the role gate with any role array of up to MaxRoles
\* entries (or with no auth attached).
RoleArrays == UNION {[1..n -> Roles] : n \in 0..MaxRoles}

InitRole ==
  /\ now = 0
  /\ users = {[id |-> 1, email |-> "e1", passwordHash |-> hashPassword("p1"),
               isActive |-> TRUE]}
  /\ memberships = <<>>
  /\ sessions = {}
  /\ invitations = {}
  /\ properties = {}
  /\ reservations = {}
  /\ nextSid = 1
  /\ \E route \in AdminRoutes \cup OwnerRoutes, roles \in RoleArrays, set \in BOOLEAN :
       /\ ~set => roles = <<>>
       /\ req = [IdleReq EXCEPT
                   !.pc = "role", !.route = route, !.ran = <<"session", "org">>,
                   !.auth = IF set
                            THEN [userId |-> 1, orgId |-> "A", roles |-> roles,
                                  set |-> TRUE]
                            ELSE NoAuth]
  /\ acc = [i \in 1..MaxAccepts |-> IdleAcc]
  /\ resp = NoResp

SpecRole == InitRole /\ [][RequireRole]_vars

\* Concurrent invite acceptances.
NextInvite == Accept

SpecInvite == Init /\ [][NextInvite]_vars

\* Login against every kind of user row: active or not, with a password hash
\* or with a value argon2 cannot decode; memberships may be removed.
InitLogin ==
  /\ now = 0
  /\ \E active \in [1..2 -> BOOLEAN],
        hash \in [1..2 -> {hashPassword("p1"), MalformedHash}] :
       users = {[id |-> 1, email |-> "e1", passwordHash |-> hash[1],
                 isActive |-> active[1]],
                [id |-> 2, email |-> "e2", passwordHash |-> hash[2],
                 isActive |-> active[2]]}
  /\ memberships = <<[userId |-> 1, orgId |-> "A", role |-> "owner"],
                     [userId |-> 1, orgId |-> "B", role |-> "member"],
                     [userId |-> 2, orgId |-> "A", role |-> "admin"]>>
  /\ sessions = {}
  /\ invitations = {}
  /\ properties = {}
  /\ reservations = {}
  /\ nextSid = 1
  /\ req = IdleReq
  /\ acc = [i \in 1..MaxAccepts |-> IdleAcc]
  /\ resp = NoResp

DoLoginAnyBody ==
  \E email \in Emails \cup {BadEmail}, password \in Passwords \cup {ShortPassword},
     orgId \in Orgs \cup {NoOrg} :
    Login(email, password, orgId)

NextLogin == DoLoginAnyBody \/ Revoke

SpecLogin == InitLogin /\ [][NextLogin]_vars

\* One accept-invite request at a time, over time, with every kind of body:
\* the tokens of the invitations, a token that names no invitation, a token
\* or a password that the schema rejects.
AcceptSteps(i) ==
  \/ AcceptReadUser(i) \/ AcceptWriteUser(i) \/ AcceptCount(i)
  \/ AcceptInsertMembership(i) \/ AcceptMarkUsed(i) \/ AcceptCreateSession(i)

AcceptAnyBody ==
  \E token \in InviteTokens \cup {UnknownInvite, ShortToken},
     password \in Passwords \cup {ShortPassword} :
    AcceptReadInvite(1, token, password)

NextReject == Tick \/ AcceptAnyBody \/ AcceptSteps(1)

SpecReject == Init /\ [][NextReject]_vars

\* The endpoints that write sessions and memberships (login, logout, invite
\* acceptances one at a time) next to the session and organization gates,
\* which a request for the property list passes through.
AcceptOne ==
  \/ \E token \in InviteTokens, password \in Passwords :
       AcceptReadInvite(1, token, password)
  \/ AcceptSteps(1)

RequestList ==
  \E cookie \in Cookies, orgId \in Orgs : RequireSession("propList", cookie, orgId)

NextAuth ==
  \/ DoLogin \/ DoLogout \/ AcceptOne
  \/ RequestList \/ RequireOrg \/ PropList

SpecAuth == Init /\ [][NextAuth]_vars

\* ======================================================== the properties
Reply401(r) == r.code = 401
WrongOrg == Reply(403, "Wrong organization context")
NoMembership == Reply(403, "No membership")
InsufficientRole == Reply(403, "Insufficient role")

\* the step in which requireSession runs for a newly arrived request
SessionGateStep == req' # req /\ req'.ran = <<"session">>

PassedSession(r) == r.failed = "none" /\ r.auth.set

\* C1: for every session row and evaluation time t, requireSession accepts
\* the request and attaches the row's (userId, orgId) iff expiresAt > t; at
\* t >= expiresAt it answers 401, on every route and path organization.
C1_AcceptIffStrictlyBeforeExpiry ==
  [][SessionGateStep =>
       \A s \in SessionRows(req'.cookie) :
         /\ (PassedSession(req') /\ req'.auth.userId = s.userId
               /\ req'.auth.orgId = s.orgId) <=> (s.expiresAt > now)
         /\ (s.expiresAt <= now) => Reply401(req'.reply)]_vars

\* C2: once the session gate has passed, requireOrg answers 403 "Wrong
\* organization context" whenever the path's orgId differs from the orgId
\* the session is bound to, whatever memberships the caller holds; a handler
\* runs only for the organization the session is bound to.
C2_WrongOrganizationContext ==
  /\ (Len(req.ran) >= 2 /\ req.auth.set /\ req.auth.orgId # req.orgId)
       => (req.reply = WrongOrg /\ req.pc = "done" /\ ~req.handled)
  /\ (req.pc = "handler" \/ req.handled)
       => \E s \in SessionRows(req.cookie) : s.orgId = req.orgId

\* C2 witness: 403 for a caller who holds a membership in the path's organization
C2_Witness ==
  /\ req.reply = WrongOrg
  /\ \E k \in DOMAIN memberships :
       memberships[k].userId = req.auth.userId /\ memberships[k].orgId = req.orgId

SetMax(S) == IF S = {} THEN 0 ELSE CHOOSE x \in S : \A y \in S : x >= y

\* C3: requireRole(m) passes iff the maximum of order(r) over the role array
\* (0 when it is empty) is at least order(m); otherwise it answers 403
\* "Insufficient role"; with no role or only member it fails for admin and
\* for owner.
C3_RoleSufficiency ==
  (Len(req.ran) = 3 /\ req.ran[3] = "role") =>
    LET R == Range(req.auth.roles)
        m == MinRole(req.route)
    IN /\ (req.failed = "none") <=> (SetMax({order[r] : r \in R}) >= order[m])
       /\ (req.failed # "none") => (req.failed = "role" /\ req.reply = InsufficientRole)
       /\ (R \subseteq {"member"}) => req.reply = InsufficientRole

\* C3 witness: a role array of more than one role passes a gate that its
\* first role alone would fail
C3_Witness ==
  /\ Len(req.ran) = 3 /\ req.failed = "none"
  /\ Len(req.auth.roles) > 1
  /\ order[req.auth.roles[1]] < order[MinRole(req.route)]

IsPrefix(a, b) == Len(a) <= Len(b) /\ \A k \in DOMAIN a : a[k] = b[k]

\* C4: the gates of a route run in the order of its preHandler array
\* (session, organization, role); the first gate that fails ends the request
\* with its response, no later gate and no handler runs; a handler runs only
\* when every gate of the route has run and passed.
C4_GateOrderShortCircuit ==
  /\ IsPrefix(req.ran, Gates(req.route))
  /\ (req.failed # "none") =>
       /\ req.pc = "done" /\ ~req.handled
       /\ req.ran[Len(req.ran)] = req.failed
       /\ req.reply.code \in {400, 401, 403}
  /\ (req.pc = "handler" \/ req.handled) =>
       /\ req.ran = Gates(req.route) /\ req.failed = "none"
       /\ req.auth.set /\ req.auth.orgId = req.orgId /\ Len(req.auth.roles) > 0
       /\ Len(req.ran) = 3 =>
            SetMax({order[r] : r \in Range(req.auth.roles)}) >= order[MinRole(req.route)]

\* C4 witness: the organization gate fails on a route that has a role gate
C4_Witness ==
  /\ req.failed = "org" /\ req.ran = <<"session", "org">>
  /\ Len(Gates(req.route)) = 3 /\ req.pc = "done"

\* C5: at most one accept-invite request succeeds for an invitation token,
\* under every interleaving of the requests that carry it.
C5_InvitationConsumedOnce ==
  \A i, j \in DOMAIN acc :
    (i # j /\ acc[i].token = acc[j].token
       /\ acc[i].pc = "done" /\ acc[i].reply = Ok)
    => ~(acc[j].pc = "done" /\ acc[j].reply = Ok)

\* C6: the store holds at most one Membership row per (user, organization)
\* pair after any interleaving of accept-invite requests.
C6_OneMembershipPerPair ==
  \A i, j \in DOMAIN memberships :
    (memberships[i].userId = memberships[j].userId
       /\ memberships[i].orgId = memberships[j].orgId) => i = j

\* C6 witness: two different invitations to one organization were accepted
\* for the same user, the second by an acceptance that found the membership
C6_Witness ==
  /\ \A v \in invitations : v.usedAt # NULL
  /\ \E i, j \in DOMAIN acc :
       /\ acc[i].inv.id # acc[j].inv.id /\ acc[i].inv.orgId = acc[j].inv.orgId
       /\ acc[i].userId = acc[j].userId
       /\ acc[i].reply = Ok /\ acc[j].reply = Ok /\ acc[j].count = 1

\* C7: a successful response of a tenant route carries only rows of the
\* organization the request's session is bound to.
C7_TenantIsolation ==
  (req.handled /\ req.reply = Ok) =>
    \A s \in SessionRows(req.cookie) : \A d \in req.data : d.orgId = s.orgId

\* the step in which requireOrg runs
OrgGateStep == req.pc = "org" /\ req'.pc # "org"

HasMembershipRow(userId, orgId) ==
  \E k \in DOMAIN memberships :
    memberships[k].userId = userId /\ memberships[k].orgId = orgId

\* C8: when requireOrg runs and the store holds no Membership row of the
\* caller for the session's organization, the answer is 403 "No membership"
\* although the session is present and unexpired; the roles it attaches are
\* the ones the store holds at that moment.
C8_RevokedMembership ==
  [][OrgGateStep =>
       /\ (req.auth.orgId = req.orgId
             /\ ~HasMembershipRow(req.auth.userId, req.orgId))
            => (req'.reply = NoMembership /\ req'.pc = "done")
       /\ (req'.failed = "none")
            => Range(req'.auth.roles) =
                 {memberships[k].role : k \in
                    {n \in DOMAIN memberships :
                       memberships[n].userId = req.auth.userId
                         /\ memberships[n].orgId = req.orgId}}]_vars

\* C8 witness: 403 "No membership" on a session that is present and unexpired
C8_Witness ==
  /\ req.reply = NoMembership
  /\ \E s \in SessionRows(req.cookie) : s.expiresAt > now /\ s.orgId = req.orgId

\* C9: a request whose session token is not in the store is answered 401
\* with error "No session".
C9_UnknownTokenNoSession ==
  (req.pc # "idle" /\ req.cookie = UnknownToken)
    => req.reply = Reply(401, "No session")

HasRole(rs, roles) == \E k \in DOMAIN roles : roles[k] \in rs

\* C10: a property or reservation row is created or changed only by a
\* request whose resolved roles contain admin or owner, and a reservation row
\* is deleted only by one whose resolved roles contain owner.
C10_MinimumRoles ==
  [][(properties' # properties \/ reservations' # reservations) =>
       /\ req.pc = "handler" /\ req'.handled
       /\ HasRole({"admin", "owner"}, req.auth.roles)
       /\ ({r.id : r \in reservations} \ {r.id : r \in reservations'} # {})
            => HasRole({"owner"}, req.auth.roles)]_vars

\* C10 witness: an owner has deleted a reservation row
C10_Witness ==
  /\ req.handled /\ req.route = "resDelete" /\ req.reply = Ok
  /\ HasRole({"owner"}, req.auth.roles)

\* the step in which an accept-invite request answers with the session cookie
AcceptedStep(i) ==
  acc[i].pc = "session" /\ acc'[i].pc = "done" /\ acc'[i].reply = Ok

\* the step in which an accept-invite request inserts or updates its user
UpsertStep(i) == acc[i].pc = "writeUser" /\ acc'[i].pc = "count"

InvitationUsed(id, invs) == \E v \in invs : v.id = id /\ v.usedAt # NULL

\* C11 (as stated): when an accept-invite request succeeds the store holds an
\* active user with the invitation's email whose password hash is the hash
\* of the supplied password, a Membership row for (user, invitation's
\* organization) with the invitation's role, the invitation marked used, and
\* a new session bound to (user, organization) whose id is the cookie.
C11_AcceptancePostcondition ==
  [][\A i \in DOMAIN acc : AcceptedStep(i) =>
       /\ \E u \in users' :
            /\ u.id = acc[i].userId /\ u.email = acc[i].inv.email /\ u.isActive
            /\ verifyPassword(u.passwordHash, acc[i].password)
       /\ \E k \in DOMAIN memberships' :
            memberships'[k] = [userId |-> acc[i].userId, orgId |-> acc[i].inv.orgId,
                               role |-> acc[i].inv.role]
       /\ InvitationUsed(acc[i].inv.id, invitations')
       /\ \E s \in sessions' \ sessions :
            /\ s.id = acc'[i].sid /\ s.userId = acc[i].userId
            /\ s.orgId = acc[i].inv.orgId]_vars

\* C11 (amended): the upsert step of an accept-invite request leaves an active
\* user with the invitation's email whose password hash is the hash of the
\* supplied password; when the request succeeds the store holds that user,
\* active and with that email, a Membership row for (user, invitation's
\* organization) that carries the invitation's role when this request
\* inserted it (a row that was already there keeps its role), the invitation
\* marked used, and a new session bound to (user, organization) whose id is
\* the cookie; the steps run in the order validate, upsert user, ensure
\* membership, mark used, create session.
C11_AcceptanceSteps ==
  [][\A i \in DOMAIN acc :
       /\ UpsertStep(i) =>
            \E u \in users' :
              /\ u.id = acc'[i].userId /\ u.email = acc[i].inv.email /\ u.isActive
              /\ verifyPassword(u.passwordHash, acc[i].password)
       /\ (acc[i].pc \in {"count", "insert", "mark", "session"}) =>
            \E u \in users : u.id = acc[i].userId /\ u.email = acc[i].inv.email
       /\ (acc[i].pc \in {"mark", "session"}) =>
            HasMembershipRow(acc[i].userId, acc[i].inv.orgId)
       /\ (acc[i].pc = "session") => InvitationUsed(acc[i].inv.id, invitations)
       /\ AcceptedStep(i) =>
            /\ \E u \in users' :
                 u.id = acc[i].userId /\ u.email = acc[i].inv.email /\ u.isActive
            /\ \E k \in DOMAIN memberships' :
                 /\ memberships'[k].userId = acc[i].userId
                 /\ memberships'[k].orgId = acc[i].inv.orgId
                 /\ (acc[i].count = 0) => memberships'[k].role = acc[i].inv.role
            /\ InvitationUsed(acc[i].inv.id, invitations')
            /\ sessions \subseteq sessions'
            /\ \E s \in sessions' \ sessions :
                 /\ s.id = acc'[i].sid /\ s.userId = acc[i].userId
                 /\ s.orgId = acc[i].inv.orgId]_vars

\* C11 witness: an acceptance has succeeded for a user who was already a
\* member of the invitation's organization with another role
C11_Witness ==
  \E i \in DOMAIN acc :
    /\ acc[i].pc = "done" /\ acc[i].reply = Ok /\ acc[i].count # 0
    /\ \E k \in DOMAIN memberships :
         /\ memberships[k].userId = acc[i].userId
         /\ memberships[k].orgId = acc[i].inv.orgId
         /\ memberships[k].role # acc[i].inv.role
    /\ \E s \in sessions : s.id = acc[i].sid /\ s.orgId = acc[i].inv.orgId


\* the step in which an accept-invite request arrives
ArriveStep(i) == acc[i].pc \in {"idle", "done"} /\ acc'[i] # acc[i]

InvalidInvite == Reply(400, "Invalid or expired invite")

\* C12: an accept-invite request whose token matches no invitation, or an
\* invitation that is already used, or one whose expiry lies before the
\* current time, is answered 400 "Invalid or expired invite" and leaves the
\* store unchanged.
C12_InvalidInviteRejected ==
  [][\A i \in DOMAIN acc :
       (/\ ArriveStep(i)
        /\ AcceptInviteSchema(acc'[i].token, acc'[i].password)
        /\ \/ \A v \in invitations : v.token # acc'[i].token
           \/ \E v \in invitations :
                /\ v.token = acc'[i].token
                /\ v.usedAt # NULL \/ v.expiresAt < now)
       => /\ acc'[i].pc = "done" /\ acc'[i].reply = InvalidInvite
          /\ acc'[i].sid = NoCookie
          /\ UNCHANGED store]_vars

\* C12 witness: 400 for the token of an invitation that is used and not expired
C12_Witness ==
  \E i \in DOMAIN acc :
    /\ acc[i].pc = "done" /\ acc[i].reply = InvalidInvite
    /\ \E v \in invitations :
         v.token = acc[i].token /\ v.usedAt # NULL /\ v.expiresAt >= now

\* C16: a request whose body fails schema validation (here accept-invite
\* with a token shorter than 16 or a password shorter than 8 characters) is
\* answered with status 400 and changes nothing in the store.
C16_SchemaFailureIs400 ==
  [][\A i \in DOMAIN acc :
       (ArriveStep(i) /\ ~AcceptInviteSchema(acc'[i].token, acc'[i].password))
       => /\ acc'[i].pc = "done" /\ acc'[i].reply.code = 400
          /\ UNCHANGED store]_vars


\* the user row that email and password authenticate
Authenticates(u, email, password) ==
  /\ u.email = email /\ u.isActive
  /\ u.passwordHash = [alg |-> "argon2id", plain |-> password]

LoginBound(u, k) ==
  /\ resp'.code = 200 /\ resp'.orgId = memberships[k].orgId
  /\ resp'.role = memberships[k].role
  /\ \E o \in organizations : o.id = memberships[k].orgId /\ o.name = resp'.name
  /\ \E s \in sessions' \ sessions :
       s.id = resp'.sid /\ s.userId = u.id /\ s.orgId = memberships[k].orgId

LoginRefused(error) ==
  /\ resp'.code = 403 /\ resp'.error = error /\ resp'.sid = NoCookie
  /\ sessions' = sessions /\ nextSid' = nextSid

\* C13: a login with valid credentials binds the new session to the
\* requested orgId when one is supplied and the user is a member of it, and
\* to the organization of the user's first membership when none is supplied;
\* the response echoes that organization's id, name and role. A supplied
\* orgId outside the user's memberships is answered 403 "Organization not
\* allowed", a user without memberships 403 "No organizations assigned", and
\* neither creates a session.
C13_LoginOrganization ==
  [][\A email \in Emails, password \in Passwords, orgId \in Orgs \cup {NoOrg} :
       \A u \in users :
         (Login(email, password, orgId) /\ Authenticates(u, email, password)) =>
           LET mine == {k \in DOMAIN memberships : memberships[k].userId = u.id}
               asked == {k \in mine : memberships[k].orgId = orgId}
           IN /\ (mine = {}) => LoginRefused("No organizations assigned")
              /\ (mine # {} /\ orgId # NoOrg /\ asked = {})
                   => LoginRefused("Organization not allowed")
              /\ (orgId # NoOrg /\ asked # {}) => \E k \in asked : LoginBound(u, k)
              /\ (mine # {} /\ orgId = NoOrg)
                   => LoginBound(u, CHOOSE k \in mine : \A n \in mine : k <= n)]_vars

\* C13 witness: a login was bound, on request, to an organization that is not
\* the one of the user's first membership
C13_Witness ==
  /\ resp.code = 200
  /\ \E s \in sessions :
       /\ s.id = resp.sid /\ s.orgId = resp.orgId
       /\ \E k \in DOMAIN memberships :
            /\ memberships[k].userId = s.userId /\ memberships[k].orgId # s.orgId
            /\ \A n \in DOMAIN memberships :
                 memberships[n].userId = s.userId => k <= n

InvalidCredentials == [NoResp EXCEPT !.code = 401, !.error = "Invalid credentials"]

\* C14: a login for an email with no user, for an inactive user, and for an
\* active user whose password verification fails (wrong password, or a stored
\* hash that makes the hashing library throw) all get the same response, 401
\* "Invalid credentials", and create no session.
C14_LoginFailuresAlike ==
  [][\A email \in Emails, password \in Passwords, orgId \in Orgs \cup {NoOrg} :
       (/\ Login(email, password, orgId)
        /\ \/ \A u \in users : u.email # email
           \/ \E u \in users :
                /\ u.email = email
                /\ \/ ~u.isActive
                   \/ u.passwordHash # [alg |-> "argon2id", plain |-> password])
       => /\ resp' = InvalidCredentials
          /\ sessions' = sessions /\ nextSid' = nextSid]_vars

\* C14 witness: 401 in a store where every user is active and holds a hash the
\* library cannot decode
C14_Witness ==
  /\ resp = InvalidCredentials /\ sessions = {}
  /\ \A u \in users : u.isActive /\ u.passwordHash = MalformedHash


\* a session id the store has issued and holds no row for any more
Destroyed(sid) == sid \in SessionIds /\ sid < nextSid /\ SessionRows(sid) = {}

\* C15: logout deletes the session row the cookie names when the cookie is
\* present, and clears the cookie and answers ok in every case (no cookie,
\* unknown token, expired session); a destroyed session does not come back,
\* and every later request that carries its token is answered 401 by the
\* session gate.
C15_LogoutEndsSession ==
  [][/\ \A c \in Cookies :
          Logout(c) =>
            /\ (c # NoCookie) => \A s \in sessions' : s.id # c
            /\ resp'.code = 200 /\ resp'.error = "" /\ resp'.sid = NoCookie
     /\ \A sid \in SessionIds :
          Destroyed(sid) => \A s \in sessions' : s.id # sid
     /\ (SessionGateStep /\ Destroyed(req'.cookie)) =>
          /\ Reply401(req'.reply) /\ req'.pc = "done"
          /\ ~PassedSession(req') /\ ~req'.handled]_vars

\* C15 witness: after a logout, a request with the token of the destroyed
\* session is answered 401 at a time at which the session had not expired
C15_Witness ==
  /\ resp.code = 200 /\ resp.sid = NoCookie
  /\ req.pc = "done" /\ Destroyed(req.cookie) /\ Reply401(req.reply)
  /\ now < WEEK


\* C17: every reservation's orgId equals the orgId of the property that its
\* propertyId names, after any sequence of reservation create and update
\* requests.
C17_ReservationInPropertyOrg ==
  \A r \in reservations : \A p \in properties :
    (p.id = r.propertyId) => p.orgId = r.orgId


\* C18: invite acceptance is all-or-nothing: an accept-invite request that
\* does not end in success has written nothing, so no state is reachable in
\* which a request that failed has inserted a user, written a user's
\* password hash or added a membership.
C18_AcceptAllOrNothing ==
  \A i \in DOMAIN acc :
    (acc[i].pc = "done" /\ acc[i].reply # Ok) => ~acc[i].wrote


LoggedOut == resp'.code = 200 /\ resp'.sid = NoCookie

C20_MembershipFrame ==
  [][/\ (memberships' # memberships) =>
          \E i \in DOMAIN acc :
            /\ acc[i].pc = "insert" /\ acc'[i].pc = "mark"
            /\ ~HasMembershipRow(acc[i].userId, acc[i].inv.orgId)
            /\ memberships' =
                 Append(memberships,
                        [userId |-> acc[i].userId, orgId |-> acc[i].inv.orgId,
                         role |-> acc[i].inv.role])
     /\ (acc' = acc \/ req' # req) => memberships' = memberships
     /\ \A i \in DOMAIN acc :
          (acc[i].pc = "count" /\ acc'[i].pc # "count"
             /\ HasMembershipRow(acc[i].userId, acc[i].inv.orgId))
          => acc'[i].pc = "mark"]_vars

\* C20 witness: a member with role admin has accepted an invitation with role
\* member to the same organization and is still admin
C20_Witness ==
  \E i \in DOMAIN acc :
    /\ acc[i].pc = "done" /\ acc[i].reply = Ok /\ acc[i].count # 0
    /\ acc[i].inv.role = "member"
    /\ \E k \in DOMAIN memberships :
         memberships[k] = [userId |-> acc[i].userId, orgId |-> acc[i].inv.orgId,
                           role |-> "admin"]


====
